---- MODULE Spec2Model ----
(***************************************************************************)
(* Model of main.py of crypto-telegram-bot: the start-up sequence of       *)
(* main() and the four command handlers (start, get_price, get_news,       *)
(* chart) run as tasks of one asyncio event loop.                          *)
(*                                                                         *)
(* Strings are sequences of ASCII codes so that str.lower() and            *)
(* str.capitalize() are computed.  JSON objects are functions, JSON arrays *)
(* are sequences.  Each task keeps the ordered list of its externally      *)
(* visible events (replies, photo, HTTP request, renderer call).           *)
(*                                                                         *)
(* The messaging transport is taken to accept every send; what the         *)
(* third-party libraries and servers answer is chosen nondeterministically.*)
(***************************************************************************)
EXTENDS Integers, Sequences, FiniteSets, TLC

\* Number of command updates delivered in one run.
MaxTasks == 2

\* Largest number of articles / OHLC rows in a modelled upstream response.
MaxItems == 1

VARIABLES env, phase, loop, pc, cmd, args, resp, trace

vars == <<env, phase, loop, pc, cmd, args, resp, trace>>

Tasks == 1..MaxTasks

-----------------------------------------------------------------------------
(* Strings                                                                 *)

bitcoin == <<98, 105, 116, 99, 111, 105, 110>>
ethereum == <<101, 116, 104, 101, 114, 101, 117, 109>>
solana == <<115, 111, 108, 97, 110, 97>>

\* Inputs a user may type as arguments of a command.
BitcoinMixed == <<66, 105, 116, 99, 111, 105, 110>>
doge == <<100, 111, 103, 101>>
bitcoins == <<98, 105, 116, 99, 111, 105, 110, 115>>

IsUpper(c) == c \in 65..90
IsLower(c) == c \in 97..122

\* str.lower()
Lower(s) == [i \in 1..Len(s) |-> IF IsUpper(s[i]) THEN s[i] + 32 ELSE s[i]]

\* str.capitalize(): first character upper-cased, the rest lower-cased
Capitalize(s) ==
    [i \in 1..Len(s) |->
        IF i = 1 THEN (IF IsLower(s[i]) THEN s[i] - 32 ELSE s[i])
        ELSE (IF IsUpper(s[i]) THEN s[i] + 32 ELSE s[i])]

SUPPORTED_COINS == (bitcoin :> bitcoin) @@ (ethereum :> ethereum) @@ (solana :> solana)

ArgInputs == { <<>>, <<BitcoinMixed, doge>>, <<doge>>, <<bitcoins>> }

Commands == {"start", "preis", "nachrichten", "chart"}

-----------------------------------------------------------------------------
(* Events and handler results                                              *)

Reply(id, coin, val) == [k |-> "reply", id |-> id, coin |-> coin, val |-> val]
Photo(coin) == [k |-> "photo", id |-> "PHOTO", coin |-> coin, val |-> <<>>]
HTTP == [k |-> "http", id |-> "GET", coin |-> <<>>, val |-> <<>>]
RENDER == [k |-> "render", id |-> "generate_chart", coin |-> <<>>, val |-> <<>>]

\* The handler awaits its last send and then returns.
Final(evs) == [evs |-> evs, pc |-> "await_final"]
\* The handler calls requests.get.
Request(evs) == [evs |-> evs \o <<HTTP>>, pc |-> "http"]
\* The exception leaves the handler.
Propagate(evs) == [evs |-> evs, pc |-> "propagated"]

-----------------------------------------------------------------------------
(* Exceptions                                                              *)

Bases(e) ==
    CASE e = "IndexError" -> {"IndexError", "Exception"}
      [] e = "KeyError" -> {"KeyError", "Exception"}
      [] e = "ValueError" -> {"ValueError", "Exception"}
      [] e = "ConnectionError" -> {"ConnectionError", "RequestException", "Exception"}
      [] e = "HTTPError" -> {"HTTPError", "RequestException", "Exception"}
      \* requests.exceptions.JSONDecodeError (requests >= 2.27)
      [] e = "JSONDecodeError" -> {"JSONDecodeError", "RequestException", "ValueError", "Exception"}

IsInstance(e, classes) == Bases(e) \cap classes # {}

-----------------------------------------------------------------------------
(* Upstream responses                                                      *)

eur == <<101, 117, 114>>

\* The empty JSON object.
EmptyObject == [x \in {} |-> 0]

Response(status, json, jsonErr, data, render) ==
    [status |-> status, json |-> json, jsonErr |-> jsonErr, data |-> data, render |-> render]

\* requests.get raises (no connection), or raise_for_status raises (4xx/5xx).
Failures ==
    { Response(s, FALSE, "none", <<>>, "none") : s \in {"connerr", "httperr"} }

\* Status 200 with a body that is not JSON: response.json() raises
\* requests.exceptions.JSONDecodeError (requests >= 2.27) or a plain
\* ValueError (older releases).
NotJson ==
    { Response("ok", FALSE, e, <<>>, "none") : e \in {"JSONDecodeError", "ValueError"} }

PriceBodies(coin_id) ==
    { EmptyObject, coin_id :> EmptyObject, coin_id :> (eur :> 61234) }

Article(i) == [title |-> i, url |-> i]
Untitled(i) == [url |-> i]
GoodArticles(n) == [i \in 1..n |-> Article(i)]
BadArticles(n) == [i \in 1..n |-> IF i = n THEN Untitled(i) ELSE Article(i)]

NewsBodies ==
    { [status |-> "ok"] }
      \cup { [status |-> "ok", articles |-> GoodArticles(n)] : n \in 0..MaxItems }
      \cup { [status |-> "ok", articles |-> BadArticles(n)] : n \in 1..MaxItems }

Row5(i) == <<i, 4, 6, 3, 5>>
Row3(i) == <<i, 4, 6>>
GoodRows(n) == [i \in 1..n |-> Row5(i)]
ShortRows(n) == [i \in 1..n |-> Row3(i)]

\* What pandas_ta / mplfinance do with a non-empty frame: the image, or an
\* exception (indicator column missing: KeyError; data rejected: ValueError).
RenderOutcomes == {"png", "KeyError", "ValueError"}

OhlcResponses ==
    { Response("ok", TRUE, "none", GoodRows(0), "none") }
      \cup { Response("ok", TRUE, "none", ShortRows(n), "none") : n \in 1..MaxItems }
      \cup { Response("ok", TRUE, "none", GoodRows(n), g) : n \in 1..MaxItems, g \in RenderOutcomes }

\* The answers the upstream of command c can give.  Without NEWS_API_KEY the
\* URL carries apiKey=None and the news API refuses the request.
Responses(c, coin_id, key) ==
    Failures \cup
    (CASE c = "preis" ->
            NotJson \cup { Response("ok", TRUE, "none", d, "none") : d \in PriceBodies(coin_id) }
      [] c = "nachrichten" ->
            IF key
            THEN NotJson \cup { Response("ok", TRUE, "none", d, "none") : d \in NewsBodies }
            ELSE {}
      [] c = "chart" -> NotJson \cup OhlcResponses
      [] OTHER -> {})

\* The exception raised by requests.get / raise_for_status / response.json(),
\* or "none".
FetchError(r) ==
    IF r.status = "connerr" THEN "ConnectionError"
    ELSE IF r.status = "httperr" THEN "HTTPError"
    ELSE IF ~r.json THEN r.jsonErr
    ELSE "none"

-----------------------------------------------------------------------------
(* Chart helpers                                                           *)

\* Mutant: no except clause, every exception leaves the function.
get_historical_data_reraise(r) ==
    LET e == IF FetchError(r) # "none" THEN FetchError(r)
             ELSE IF \E i \in 1..Len(r.data) : Len(r.data[i]) # 5 THEN "ValueError"
             ELSE "none"
    IN  IF e = "none" THEN [ret |-> "df", df |-> r.data, exc |-> "none"]
        ELSE [ret |-> "raise", df |-> <<>>, exc |-> e]

\* get_historical_data: the frame (its rows), None, or an exception that is
\* not a RequestException and so leaves the function.  pd.DataFrame(data,
\* columns=[5 names]) raises ValueError when the rows do not have 5 fields.
get_historical_data(r) ==
    LET e == IF FetchError(r) # "none" THEN FetchError(r)
             ELSE IF \E i \in 1..Len(r.data) : Len(r.data[i]) # 5 THEN "ValueError"
             ELSE "none"
    IN  IF e = "none" THEN [ret |-> "df", df |-> r.data, exc |-> "none"]
        ELSE IF IsInstance(e, {"RequestException"}) THEN [ret |-> "None", df |-> <<>>, exc |-> "none"]
        ELSE [ret |-> "raise", df |-> <<>>, exc |-> e]

\* generate_chart: None for an absent or empty frame, else the encoded image
\* or whatever the indicator / plotting library raises.
generate_chart(h, r) ==
    IF h.ret = "None" \/ Len(h.df) = 0 THEN [ret |-> "None", exc |-> "none"]
    ELSE IF r.render = "png" THEN [ret |-> "bytes", exc |-> "none"]
    ELSE [ret |-> "raise", exc |-> r.render]

-----------------------------------------------------------------------------
(* Handlers.  Each operator is the piece of a handler that runs without    *)
(* giving up the event loop; it yields the events it produces, in order,   *)
(* and where the handler stands afterwards.                                *)

start(a) == Final(<<Reply("WELCOME", <<>>, <<>>)>>)

\* Mutant: the first except clause names ValueError alone.
get_price_except_strict(evs, e) ==
    IF IsInstance(e, {"ValueError"})
    THEN Final(evs \o <<Reply("USAGE_PREIS", <<>>, <<>>)>>)
    ELSE IF IsInstance(e, {"RequestException"})
    THEN Final(evs \o <<Reply("PRICE_FAILED", <<>>, <<>>)>>)
    ELSE Propagate(evs)

\* get_price: the except clauses
get_price_except(evs, e) ==
    IF IsInstance(e, {"IndexError", "ValueError"})
    THEN Final(evs \o <<Reply("USAGE_PREIS", <<>>, <<>>)>>)
    ELSE IF IsInstance(e, {"RequestException"})
    THEN Final(evs \o <<Reply("PRICE_FAILED", <<>>, <<>>)>>)
    ELSE Propagate(evs)

\* get_price: from the call to requests.get
get_price(a) ==
    IF Len(a) = 0 THEN get_price_except(<<>>, "IndexError")
    ELSE IF Lower(a[1]) \notin DOMAIN SUPPORTED_COINS
    THEN Final(<<Reply("UNKNOWN_COIN", <<>>, <<>>)>>)
    ELSE Request(<<>>)

\* get_price: after requests.get returned or raised
get_price_response(a, r) ==
    LET name == Lower(a[1])
        coin_id == SUPPORTED_COINS[name]
    IN  IF FetchError(r) # "none" THEN get_price_except(<<>>, FetchError(r))
        ELSE IF coin_id \notin DOMAIN r.data THEN get_price_except(<<>>, "KeyError")
        ELSE IF eur \notin DOMAIN r.data[coin_id] THEN get_price_except(<<>>, "KeyError")
        ELSE Final(<<Reply("PRICE", Capitalize(name), <<r.data[coin_id][eur]>>)>>)

get_news_except(evs, e) ==
    IF IsInstance(e, {"IndexError", "ValueError"})
    THEN Final(evs \o <<Reply("USAGE_NACHRICHTEN", <<>>, <<>>)>>)
    ELSE IF IsInstance(e, {"RequestException"})
    THEN Final(evs \o <<Reply("NEWS_FAILED", <<>>, <<>>)>>)
    ELSE Propagate(evs)

\* Mutant: the registry check is left out (the news URL takes the name as typed).
get_news_unchecked(a) ==
    IF Len(a) = 0 THEN get_news_except(<<>>, "IndexError")
    ELSE Request(<<>>)

get_news(a) ==
    IF Len(a) = 0 THEN get_news_except(<<>>, "IndexError")
    ELSE IF Lower(a[1]) \notin DOMAIN SUPPORTED_COINS
    THEN Final(<<Reply("UNKNOWN_COIN", <<>>, <<>>)>>)
    ELSE Request(<<>>)

get_news_response(a, r) ==
    LET name == Lower(a[1])
        articles == IF "articles" \in DOMAIN r.data THEN r.data.articles ELSE <<>>
    IN  IF FetchError(r) # "none" THEN get_news_except(<<>>, FetchError(r))
        ELSE IF Len(articles) = 0
        THEN Final(<<Reply("NO_NEWS", Capitalize(name), <<>>)>>)
        ELSE IF \E i \in 1..Len(articles) : {"title", "url"} \ DOMAIN articles[i] # {}
        THEN get_news_except(<<>>, "KeyError")
        ELSE Final(<<Reply("NEWS", Capitalize(name),
                          [i \in 1..Len(articles) |-> <<articles[i].title, articles[i].url>>])>>)

chart_except(evs, e) ==
    IF IsInstance(e, {"IndexError", "ValueError"})
    THEN Final(evs \o <<Reply("USAGE_CHART", <<>>, <<>>)>>)
    ELSE IF IsInstance(e, {"Exception"})
    THEN Final(evs \o <<Reply("UNEXPECTED", <<>>, <<>>)>>)
    ELSE Propagate(evs)

\* chart: up to the awaited please-wait reply
chart(a) ==
    IF Len(a) = 0 THEN chart_except(<<>>, "IndexError")
    ELSE IF Lower(a[1]) \notin DOMAIN SUPPORTED_COINS
    THEN Final(<<Reply("UNKNOWN_COIN", <<>>, <<>>)>>)
    ELSE [evs |-> <<Reply("WAIT", Capitalize(Lower(a[1])), <<>>)>>, pc |-> "await_ack"]

\* chart: the please-wait reply is sent; get_historical_data calls requests.get
chart_fetch(a) == Request(<<>>)

\* Mutant: the handler does not test the frame before rendering.
chart_response_unchecked(a, r) ==
    LET name == Lower(a[1])
        h == get_historical_data(r)
        g == generate_chart(h, r)
    IN  IF h.ret = "raise" THEN chart_except(<<>>, h.exc)
        ELSE IF g.ret = "raise" THEN chart_except(<<RENDER>>, g.exc)
        ELSE IF g.ret = "bytes" THEN Final(<<RENDER, Photo(Capitalize(name))>>)
        ELSE Final(<<RENDER, Reply("RENDER_FAILED", <<>>, <<>>)>>)

\* chart: after requests.get returned or raised
chart_response(a, r) ==
    LET name == Lower(a[1])
        h == get_historical_data(r)
        g == generate_chart(h, r)
    IN  IF h.ret = "raise" THEN chart_except(<<>>, h.exc)
        ELSE IF h.ret = "None" \/ Len(h.df) = 0
        THEN Final(<<Reply("NO_DATA", <<>>, <<>>)>>)
        ELSE IF g.ret = "raise" THEN chart_except(<<RENDER>>, g.exc)
        ELSE IF g.ret = "bytes" THEN Final(<<RENDER, Photo(Capitalize(name))>>)
        ELSE Final(<<RENDER, Reply("RENDER_FAILED", <<>>, <<>>)>>)

\* CommandHandler registration: command name -> callback
Handler(c, a) ==
    CASE c = "start" -> start(a)
      [] c = "preis" -> get_price(a)
      [] c = "nachrichten" -> get_news(a)
      [] c = "chart" -> chart(a)

OnResponse(c, a, r) ==
    CASE c = "preis" -> get_price_response(a, r)
      [] c = "nachrichten" -> get_news_response(a, r)
      [] c = "chart" -> chart_response(a, r)

-----------------------------------------------------------------------------
(* State machine                                                           *)

NoResponse == Response("none", FALSE, "none", <<>>, "none")

\* Mutant: the request is awaited (an asynchronous HTTP client), the loop is free.
HttpHolderAsync(t) == 0

\* The task that keeps the event loop while its requests.get is outstanding:
\* requests.get is a synchronous call, the coroutine does not yield.
HttpHolder(t) == t

\* The loop after a piece of handler t ended in state p.
LoopAfter(t, p) == IF p = "http" THEN HttpHolder(t) ELSE 0

Init ==
    /\ env \in [token : BOOLEAN, newskey : BOOLEAN]
    /\ phase = "boot"
    /\ loop = 0
    /\ pc = [t \in Tasks |-> "new"]
    /\ cmd = [t \in Tasks |-> "none"]
    /\ args = [t \in Tasks |-> <<>>]
    /\ resp = [t \in Tasks |-> NoResponse]
    /\ trace = [t \in Tasks |-> <<>>]

\* main: Application.builder().token(TELEGRAM_TOKEN).build(); the library
\* raises InvalidToken for a missing token.
Build ==
    /\ phase = "boot"
    /\ phase' = IF env.token THEN "built" ELSE "failed"
    /\ UNCHANGED <<env, loop, pc, cmd, args, resp, trace>>

AddHandlers ==
    /\ phase = "built"
    /\ phase' = "registered"
    /\ UNCHANGED <<env, loop, pc, cmd, args, resp, trace>>

RunPolling ==
    /\ phase = "registered"
    /\ phase' = "polling"
    /\ UNCHANGED <<env, loop, pc, cmd, args, resp, trace>>

\* An update with command c and arguments a arrives; its handler runs up to
\* its first await or its requests.get.  A handler may start while another
\* one is suspended at an awaited send: this is the framework's most
\* permissive scheduling (concurrent updates), and it contains the sequential
\* one.
Dispatch(t) ==
    /\ phase = "polling"
    /\ loop = 0
    /\ pc[t] = "new"
    /\ \A u \in Tasks : u < t => pc[u] # "new"
    /\ \E c \in Commands, a \in ArgInputs :
          LET h == Handler(c, a)
          IN  /\ cmd' = [cmd EXCEPT ![t] = c]
              /\ args' = [args EXCEPT ![t] = a]
              /\ trace' = [trace EXCEPT ![t] = h.evs]
              /\ pc' = [pc EXCEPT ![t] = h.pc]
              /\ loop' = LoopAfter(t, h.pc)
    /\ UNCHANGED <<env, phase, resp>>

\* The awaited send of task t has completed; the handler returns, or (chart,
\* after the please-wait reply) goes on to fetch the data.
Resume(t) ==
    /\ loop = 0
    /\ pc[t] \in {"await_final", "await_ack"}
    /\ LET h == IF pc[t] = "await_ack" THEN chart_fetch(args[t])
                ELSE [evs |-> <<>>, pc |-> "done"]
       IN  /\ trace' = [trace EXCEPT ![t] = @ \o h.evs]
           /\ pc' = [pc EXCEPT ![t] = h.pc]
           /\ loop' = LoopAfter(t, h.pc)
    /\ UNCHANGED <<env, phase, cmd, args, resp>>

\* requests.get of task t returns or raises; the handler runs to its next
\* await, or the exception leaves it.
HttpResponse(t) ==
    /\ pc[t] = "http"
    /\ loop \in {0, t}
    /\ \E r \in Responses(cmd[t], SUPPORTED_COINS[Lower(args[t][1])], env.newskey) :
          LET h == OnResponse(cmd[t], args[t], r)
          IN  /\ resp' = [resp EXCEPT ![t] = r]
              /\ trace' = [trace EXCEPT ![t] = @ \o h.evs]
              /\ pc' = [pc EXCEPT ![t] = h.pc]
              /\ loop' = 0
    /\ UNCHANGED <<env, phase, cmd, args>>

Next ==
    \/ Build
    \/ AddHandlers
    \/ RunPolling
    \/ \E t \in Tasks : Dispatch(t)
    \/ \E t \in Tasks : Resume(t)
    \/ \E t \in Tasks : HttpResponse(t)

Spec == Init /\ [][Next]_vars

-----------------------------------------------------------------------------
(* Vocabulary of the properties                                            *)

Parameterized == {"preis", "nachrichten", "chart"}
CoinNames == {bitcoin, ethereum, solana}

HasArg(t) == Len(args[t]) > 0
KnownCoin(t) == HasArg(t) /\ Lower(args[t][1]) \in CoinNames
UnknownCoin(t) == HasArg(t) /\ Lower(args[t][1]) \notin CoinNames

Ids(tr) == [i \in 1..Len(tr) |-> tr[i].id]
IsOutput(e) == e.k \in {"reply", "photo"}
Outputs(tr) == SelectSeq(tr, IsOutput)
Count(tr, kind) == Cardinality({i \in 1..Len(tr) : tr[i].k = kind})
Sent(t, id) == \E i \in 1..Len(trace[t]) : trace[t][i].id = id

Usage(c) ==
    CASE c = "preis" -> "USAGE_PREIS"
      [] c = "nachrichten" -> "USAGE_NACHRICHTEN"
      [] c = "chart" -> "USAGE_CHART"
UsageIds == {"USAGE_PREIS", "USAGE_NACHRICHTEN", "USAGE_CHART"}

\* The reply texts that ask the user to try again later.
RetryLater == {"PRICE_FAILED", "NEWS_FAILED", "UNEXPECTED"}

Answered(t) == resp[t].status # "none"
HttpFailed(t) == resp[t].status \in {"connerr", "httperr"}
Returned(t) == pc[t] = "done"
Ended(t) == pc[t] \in {"done", "propagated"}

-----------------------------------------------------------------------------
(* C1: a parameterized command whose first argument, lower-cased, is not a  *)
(* supported coin replies with the unknown-coin message and nothing else:   *)
(* no HTTP request, no renderer call, no photo, at any point of the         *)
(* invocation.                                                              *)
C1_UnknownCoinNoExternalCall ==
    \A t \in Tasks :
        (cmd[t] \in Parameterized /\ UnknownCoin(t)) =>
            /\ Ids(trace[t]) = <<"UNKNOWN_COIN">>
            /\ trace[t][1].k = "reply"
            /\ pc[t] \in {"await_final", "done"}

C1_Witness ==
    \E t \in Tasks :
        /\ cmd[t] = "nachrichten"
        /\ args[t] = <<bitcoins>>
        /\ Returned(t)

(* C2: a parameterized command invoked with no argument sends its usage     *)
(* hint as its only reply and makes no HTTP request and no renderer call.   *)
C2_NoArgumentUsageOnly ==
    \A t \in Tasks :
        (cmd[t] \in Parameterized /\ ~HasArg(t)) =>
            /\ Ids(trace[t]) = <<Usage(cmd[t])>>
            /\ trace[t][1].k = "reply"
            /\ pc[t] \in {"await_final", "done"}

C2_Witness ==
    \E t \in Tasks :
        /\ cmd[t] = "preis"
        /\ args[t] = <<>>
        /\ Returned(t)

(* C3: in price, news and chart no exception leaves the handler: every      *)
(* invocation ends by returning after a reply.                              *)
C3_NothingPropagates ==
    \A t \in Tasks :
        cmd[t] \in Parameterized => pc[t] # "propagated"

(* C4: when TELEGRAM_TOKEN or NEWS_API_KEY is missing, the process never    *)
(* registers its handlers and never polls.                                  *)
C4_MissingSecretStopsStartup ==
    (~env.token \/ ~env.newskey) => phase \notin {"registered", "polling"}

(* C5 as stated: with a supported coin and a failed HTTP call, every        *)
(* parameterized command makes exactly one request and replies with a       *)
(* retry-later failure message.                                             *)
C5_FailureOneRequestRetryLater ==
    \A t \in Tasks :
        (cmd[t] \in Parameterized /\ KnownCoin(t) /\ HttpFailed(t)) =>
            /\ Count(trace[t], "http") = 1
            /\ Outputs(trace[t])[Len(Outputs(trace[t]))].id \in RetryLater

(* C5 amended: with a supported coin and a failed HTTP call, price and news *)
(* make exactly one request and reply with their retry-later failure        *)
(* message; chart makes exactly one request too, and replies with the       *)
(* data-unavailable message.                                                *)
C5_FailureOneRequestPerCommand ==
    \A t \in Tasks :
        (cmd[t] \in Parameterized /\ KnownCoin(t) /\ HttpFailed(t)) =>
            /\ Count(trace[t], "http") = 1
            /\ cmd[t] = "preis" => Ids(trace[t]) = <<"GET", "PRICE_FAILED">>
            /\ cmd[t] = "nachrichten" => Ids(trace[t]) = <<"GET", "NEWS_FAILED">>
            /\ cmd[t] = "chart" => Ids(trace[t]) = <<"WAIT", "GET", "NO_DATA">>
            /\ pc[t] \in {"await_final", "done"}

C5_Witness ==
    \E t, u \in Tasks :
        /\ cmd[t] = "chart" /\ resp[t].status = "httperr" /\ Returned(t)
        /\ cmd[u] = "preis" /\ resp[u].status = "connerr" /\ Returned(u)

(* C6: in chart with a supported coin, an empty OHLC array, or a fetch that *)
(* yields no frame, is answered with the data-unavailable message and       *)
(* generate_chart is not called.                                            *)
C6_EmptyDataNoRender ==
    \A t \in Tasks :
        (/\ cmd[t] = "chart" /\ KnownCoin(t) /\ Answered(t)
         /\ \/ (resp[t].status = "ok" /\ resp[t].json /\ resp[t].data = <<>>)
            \/ get_historical_data(resp[t]).ret = "None") =>
            /\ Ids(trace[t]) = <<"WAIT", "GET", "NO_DATA">>
            /\ Count(trace[t], "render") = 0

C6_Witness ==
    \E t \in Tasks :
        /\ cmd[t] = "chart"
        /\ resp[t].status = "ok" /\ resp[t].json /\ resp[t].data = <<>>
        /\ Returned(t)

(* C7: in chart with a supported coin the please-wait reply precedes the    *)
(* OHLC request and is followed by exactly one terminal output, which is    *)
(* the photo, the data-unavailable message, the render-failure message or   *)
(* the generic failure message.                                             *)
C7_AckThenOneTerminal ==
    \A t \in Tasks :
        (cmd[t] = "chart" /\ KnownCoin(t)) =>
            /\ Count(trace[t], "http") > 0 => trace[t][1].id = "WAIT"
            /\ Len(Outputs(trace[t])) <= 2
            /\ Returned(t) =>
                  /\ Len(Outputs(trace[t])) = 2
                  /\ Outputs(trace[t])[1].id = "WAIT"
                  /\ Outputs(trace[t])[2].id \in {"PHOTO", "NO_DATA", "RENDER_FAILED", "UNEXPECTED"}

(* C8: in chart, when the OHLC response is non-empty and building the frame *)
(* or rendering raises, the reply is the generic unexpected-error message.  *)
C8_RaiseGivesUnexpected ==
    \A t \in Tasks :
        (/\ cmd[t] = "chart" /\ Answered(t)
         /\ resp[t].status = "ok" /\ resp[t].json /\ Len(resp[t].data) > 0
         /\ \/ get_historical_data(resp[t]).ret = "raise"
            \/ resp[t].render # "png") =>
            Outputs(trace[t])[Len(Outputs(trace[t]))].id = "UNEXPECTED"

BlockedDuringHttp ==
    \A t \in Tasks :
        pc[t] = "http" =>
            \A u \in Tasks \ {t} : pc'[u] = pc[u] /\ trace'[u] = trace[u]

\* What a task sends depends on its own command, arguments and upstream
\* answer only.
RepliesDependOnOwnInput ==
    \A t, u \in Tasks :
        (Ended(t) /\ Ended(u) /\ cmd[t] = cmd[u] /\ args[t] = args[u] /\ resp[t] = resp[u]) =>
            (trace[t] = trace[u] /\ pc[t] = pc[u])

C10_UsageOnlyWithoutArgument ==
    \A t \in Tasks :
        (\E id \in UsageIds : Sent(t, id)) => ~HasArg(t)

====
